---- MODULE Spec2Model ----
(***************************************************************************)
(* Model of the ryzz statement-assembly engine: the Value model, predicate *)
(* composition (eq / and / or), the table and row descriptors, and the     *)
(* Query builder with its clause slots and parameter vector.               *)
(*                                                                         *)
(* SQL text is a sequence of tokens.  A separator space is the token " ",  *)
(* a positional placeholder is the token "?", a double quote is the token  *)
(* DQ.  format!() is concatenation of token sequences.                     *)
(* Option<T> is a sequence of length 0 (None) or 1 (Some).                 *)
(***************************************************************************)
EXTENDS Naturals, Sequences, FiniteSets

VARIABLES q, hist, phase, sent, resp, result, stack, nleaves, pcall, ddl, pair, cn

vars == <<q, hist, phase, sent, resp, result, stack, nleaves, pcall, ddl, pair, cn>>

\* The variables of predicate composition and of the migration generator
predVars == <<stack, nleaves, pcall>>
ddlVars == <<ddl>>
pairVars == <<pair>>
connVars == <<cn>>
builderVars == <<q, hist, phase, sent, resp, result>>

\* ------------------------------------------------------------------ bounds
\* Number of builder calls made on one Query before a terminal call.
MaxCalls == 3
\* Number of eq leaves held by the predicate fragments under composition.
MaxLeaves == 3

\* ----------------------------------------------------------------- helpers
None == << >>
Some(x) == <<x>>
IsSome(o) == Len(o) = 1
Unwrap(o) == o[1]

DQ == "\""
SP == " "
QM == "?"

\* [T]::join(sep) on a vector of texts
RECURSIVE Join(_, _)
Join(ss, sep) ==
  IF ss = << >> THEN << >>
  ELSE IF Len(ss) = 1 THEN ss[1]
  ELSE ss[1] \o sep \o Join(Tail(ss), sep)

\* Number of positional placeholders in a text
RECURSIVE CountQM(_)
CountQM(s) ==
  IF s = << >> THEN 0
  ELSE (IF Head(s) = QM THEN 1 ELSE 0) + CountQM(Tail(s))

\* Occurrences of a token in a text
RECURSIVE CountTok(_, _)
CountTok(text, tok) ==
  IF text = << >> THEN 0
  ELSE (IF Head(text) = tok THEN 1 ELSE 0) + CountTok(Tail(text), tok)

\* ------------------------------------------------------------- Value model
Lit(s) == [kind |-> "Lit", v |-> s]
Text(s) == [kind |-> "Text", v |-> s]
Blob(b) == [kind |-> "Blob", v |-> b]
Real(r) == [kind |-> "Real", v |-> r]
Integer(i) == [kind |-> "Integer", v |-> i]

\* A caller's argument for `impl Into<Value>`: its Rust type and the datum,
\* every datum written as its source literal ("1", "x", "1.5").  A caller
\* holding a Value passes it as it is: the type then names the variant.
Arg(ty, v) == [ty |-> ty, v |-> v]

\* From<String>, From<&str>, From<Arc<str>>, From<i64>, From<f64>,
\* From<Vec<u8>> for Value, and the reflexive conversion of a Value.
\* Mutant of Into: an i64 is bound as text
Into_i64_as_text(a) ==
  CASE a.ty = "String" -> Text(a.v)
    [] a.ty = "str" -> Text(a.v)
    [] a.ty = "ArcStr" -> Text(a.v)
    [] a.ty = "i64" -> Text(a.v)
    [] a.ty = "f64" -> Real(a.v)
    [] a.ty = "VecU8" -> Blob(a.v)
    [] a.ty = "Value::Lit" -> Lit(a.v)
    [] a.ty = "Value::Text" -> Text(a.v)
    [] a.ty = "Value::Blob" -> Blob(a.v)
    [] a.ty = "Value::Real" -> Real(a.v)
    [] a.ty = "Value::Integer" -> Integer(a.v)

Into(a) ==
  CASE a.ty = "String" -> Text(a.v)
    [] a.ty = "str" -> Text(a.v)
    [] a.ty = "ArcStr" -> Text(a.v)
    [] a.ty = "i64" -> Integer(a.v)
    [] a.ty = "f64" -> Real(a.v)
    [] a.ty = "VecU8" -> Blob(a.v)
    [] a.ty = "Value::Lit" -> Lit(a.v)
    [] a.ty = "Value::Text" -> Text(a.v)
    [] a.ty = "Value::Blob" -> Blob(a.v)
    [] a.ty = "Value::Real" -> Real(a.v)
    [] a.ty = "Value::Integer" -> Integer(a.v)

\* ------------------------------------------------------- table descriptors
\* A table declaration: #[rizz(table = name)] struct with typed fields.
TableDecl(name, fields) == [name |-> name, fields |-> fields]

\* A field's first #[rizz(..)] attribute as RizzAttr parses it
RizzAttr(primary_key, unique, not_null, default_value, references) ==
  [primary_key |-> primary_key, unique |-> unique, not_null |-> not_null,
   default_value |-> default_value, references |-> references]

Field(ident, ty, attr) == [ident |-> ident, ty |-> ty, attr |-> attr]

\* #[rizz(table = "accounts")] struct Accounts
\*   { #[rizz(primary_key)] id: Integer,
\*     #[rizz(not_null, r#default = "''")] name: Text }
AccountsDecl ==
  TableDecl("accounts",
    << Field("id", "Integer", <<RizzAttr(TRUE, FALSE, FALSE, << >>, << >>)>>),
       Field("name", "Text", <<RizzAttr(FALSE, FALSE, TRUE, <<"''">>, << >>)>>) >>)

\* format!(r#""{}""#, table_str.value())
table_name(t) == <<DQ, t.name, DQ>>

\* format!(r#"{}."{}""#, table_name, ident): the qualified column held by
\* the column handle Integer(..) / Text(..) / Real(..) / Blob(..)
ColumnHandle(t, i) == table_name(t) \o <<".", DQ, t.fields[i].ident, DQ>>

to_column(c) == c

\* "*"
star == <<"*">>

\* format!("count({}) as count", columns.to_column())
count(c) == <<"count(">> \o to_column(c) \o <<")", SP, "as", SP, "count">>

\* Column list of a table, comma-joined
ColumnList(t) == Join([i \in 1..Len(t.fields) |-> <<t.fields[i].ident>>], <<",">>)

\* Table::insert_sql / update_sql / delete_sql fragments
TableInsertSql(t) ==
  <<"insert", SP, "into", SP>> \o table_name(t) \o <<SP, "(">> \o ColumnList(t) \o <<")">>
TableUpdateSql(t) == <<"update", SP>> \o table_name(t)
TableDeleteSql(t) == <<"delete", SP, "from", SP>> \o table_name(t)

\* --------------------------------------------------------- row descriptors
\* A row instance: the declared columns and one caller datum per column.
RowInst(cols, data) == [cols |-> cols, data |-> data]

\* Row::values(): the fields in declared order, each converted to a Value
RowValues(r) == [i \in 1..Len(r.data) |-> Into(r.data[i])]

\* Row::insert_sql(): (<col1>,<col2>,...) values (?,?,...)
RowInsertSql(r) ==
  <<"(">> \o Join([i \in 1..Len(r.cols) |-> <<r.cols[i]>>], <<",">>)
    \o <<")", SP, "values", SP, "(">>
    \o Join([i \in 1..Len(r.cols) |-> <<QM>>], <<",">>) \o <<")">>

\* Row::set_sql(): <col1> = ?, <col2> = ?, ...
RowSetSql(r) ==
  Join([i \in 1..Len(r.cols) |-> <<r.cols[i], SP, "=", SP, QM>>], <<",", SP>>)

\* --------------------------------------------------- predicate composition
WherePart(clause, values) == [clause |-> clause, values |-> values]

eq(left, right) ==
  WherePart(to_column(left) \o <<SP, "=", SP, QM>>, <<Into(right)>>)

\* Mutant of and: the right fragment's values are lost
and_left_values_only(left, right) ==
  WherePart(<<"(">> \o left.clause \o <<SP, "and", SP>> \o right.clause \o <<")">>,
            << >> \o left.values)

and(left, right) ==
  WherePart(<<"(">> \o left.clause \o <<SP, "and", SP>> \o right.clause \o <<")">>,
            (<< >> \o left.values) \o right.values)

\* Mutant of or: the composite is not parenthesised
or_without_parentheses(left, right) ==
  WherePart(left.clause \o <<SP, "or", SP>> \o right.clause,
            (<< >> \o left.values) \o right.values)

or(left, right) ==
  WherePart(<<"(">> \o left.clause \o <<SP, "or", SP>> \o right.clause \o <<")">>,
            (<< >> \o left.values) \o right.values)

\* ------------------------------------------------------------ Query builder
Query_new ==
  [select |-> None, from |-> None, where |-> None, limit |-> None,
   insert_into |-> None, values_sql |-> None, values |-> None,
   delete |-> None, set |-> None, update |-> None, returning |-> None]

\* Mutant of select: starts over from an empty Query
select_on_fresh_query(self, columns) ==
  [Query_new EXCEPT !.select = Some(<<"select", SP>> \o columns)]

select(self, columns) ==
  [self EXCEPT !.select = Some(<<"select", SP>> \o columns)]

\* Mutant of from: the table name loses its quotes
from_bare_table(self, table) ==
  [self EXCEPT !.from = Some(<<"from", SP, table.name>>)]

from(self, table) ==
  [self EXCEPT !.from = Some(<<"from", SP>> \o table_name(table))]

\* Mutant of where: the predicate's values go in front of the vector
where_values_prepended(self, part) ==
  [self EXCEPT
     !.where = IF self.where = None
               THEN Some(<<"where", SP>> \o part.clause)
               ELSE self.where,
     !.values = IF IsSome(self.values)
                THEN Some(part.values \o Unwrap(self.values))
                ELSE Some(part.values)]

\* Mutant of where: the clause text is overwritten on every call
where_overwrites_text(self, part) ==
  [self EXCEPT
     !.where = Some(<<"where", SP>> \o part.clause),
     !.values = IF IsSome(self.values)
                THEN Some(Unwrap(self.values) \o part.values)
                ELSE Some(part.values)]

\* Mutant of where: the values are contributed on the first call only
where_values_first_call_only(self, part) ==
  [self EXCEPT
     !.where = IF self.where = None
               THEN Some(<<"where", SP>> \o part.clause)
               ELSE self.where,
     !.values = IF self.where = None
                THEN (IF IsSome(self.values)
                      THEN Some(Unwrap(self.values) \o part.values)
                      ELSE Some(part.values))
                ELSE self.values]

where(self, part) ==
  [self EXCEPT
     !.where = IF self.where = None
               THEN Some(<<"where", SP>> \o part.clause)
               ELSE self.where,
     !.values = IF IsSome(self.values)
                THEN Some(Unwrap(self.values) \o part.values)
                ELSE Some(part.values)]

\* Display of an unsigned integer: its decimal digits
DigitChar == <<"0", "1", "2", "3", "4", "5", "6", "7", "8", "9">>

RECURSIVE FmtU64(_)
FmtU64(n) ==
  IF n < 10 THEN <<DigitChar[n + 1]>>
  ELSE FmtU64(n \div 10) \o <<DigitChar[(n % 10) + 1]>>

\* Mutant of limit: the parameter vector is dropped
limit_drops_values(self, n) ==
  [self EXCEPT !.limit = Some(<<"limit", SP>> \o FmtU64(n)), !.values = None]

limit(self, n) ==
  [self EXCEPT !.limit = Some(<<"limit", SP>> \o FmtU64(n))]

insert(self, table) ==
  [self EXCEPT !.insert_into = Some(TableInsertSql(table))]

\* Mutant of values: the clause text is set, the parameter vector is not
values_text_only(self, row) ==
  [self EXCEPT !.values_sql = Some(RowInsertSql(row))]

values(self, row) ==
  [self EXCEPT !.values_sql = Some(RowInsertSql(row)),
               !.values = Some(RowValues(row))]

update(self, table) ==
  [self EXCEPT !.update = Some(TableUpdateSql(table))]

\* Mutant of set: the parameter vector is extended, not overwritten
set_appends(self, row) ==
  [self EXCEPT !.set = Some(RowSetSql(row)),
               !.values = IF IsSome(self.values)
                          THEN Some(Unwrap(self.values) \o RowValues(row))
                          ELSE Some(RowValues(row))]

set(self, row) ==
  [self EXCEPT !.set = Some(RowSetSql(row)),
               !.values = Some(RowValues(row))]

delete(self, table) ==
  [self EXCEPT !.delete = Some(TableDeleteSql(table))]

\* Option::is_some filter, unwrap and collect of a vector of options
RECURSIVE FilterSome(_)
FilterSome(os) ==
  IF os = << >> THEN << >>
  ELSE (IF IsSome(Head(os)) THEN <<Unwrap(Head(os))>> ELSE << >>)
         \o FilterSome(Tail(os))

\* Mutant of to_sql: where and returning change places
to_sql_returning_before_where(self) ==
  Join(FilterSome(<<self.select, self.from, self.insert_into, self.values_sql,
                    self.update, self.set, self.delete, self.returning,
                    self.where, self.limit>>),
       <<SP>>)

to_sql(self) ==
  Join(FilterSome(<<self.select, self.from, self.insert_into, self.values_sql,
                    self.update, self.set, self.delete, self.where,
                    self.returning, self.limit>>),
       <<SP>>)

\* self.to_sql().to_string()
sql(self) == to_sql(self)

\* ------------------------------------------------------------------ inputs
Tables == {AccountsDecl}

accounts_id == ColumnHandle(AccountsDecl, 1)
accounts_name == ColumnHandle(AccountsDecl, 2)

SelectColumns == {star, count(accounts_id)}

\* struct Account { id: i64, name: String } deriving Row
AccountCols == <<"id", "name">>
Rows ==
  {RowInst(AccountCols, <<Arg("i64", "1"), Arg("String", "x")>>),
   RowInst(AccountCols, <<Arg("i64", "2"), Arg("String", "y")>>)}

\* Arguments a caller can hand to eq as `impl Into<Value>`
EqArgs == {Arg("str", "1"), Arg("i64", "1"), Arg("Value::Lit", "accounts")}

Preds ==
  {eq(accounts_id, a) : a \in EqArgs}
    \cup {and(eq(accounts_id, Arg("str", "1")), eq(accounts_name, Arg("String", "x")))}

Limits == {1, 10}

\* --------------------------------------------------------------- the state
\* q      the Query under construction (Query_new before the first call)
\* hist   the builder calls made on q so far, in call order
\* phase  "new" before a builder exists, "building", "awaiting" while a
\*        terminal call waits for the execution layer, "done" when it returned
\* sent   what the terminal call handed to the execution layer
\* resp   what the execution layer answered to the terminal call
\* result what the terminal call that just returned gave its caller
\* stack  predicate fragments a caller holds while composing a predicate
\* nleaves  number of eq fragments built so far
\* pcall  the predicate constructor called last, with its arguments
\* ddl    the migration statements generated last, one slot per generator
Call(m, x) == [m |-> m, x |-> x]

\* No migration statement generated yet
\* Two Query values alive at once, each with the calls made on it
Builders == {1, 2}
NoBuilder == [q |-> Query_new, hist |-> << >>]

\* Before connection(path) is called: no Connection, nothing opened, no
\* Database asked for
NoConn == [c |-> None, opened |-> None, engine |-> << >>, db |-> None]

NoDdl ==
  [create_table |-> None, add_column |-> None,
   create_index |-> None, drop_index |-> None]

Init ==
  /\ q = Query_new
  /\ hist = << >>
  /\ phase = "new"
  /\ sent = None
  /\ resp = None
  /\ result = None
  /\ stack = << >>
  /\ nleaves = 0
  /\ pcall = None
  /\ ddl = NoDdl
  /\ pair = [i \in Builders |-> NoBuilder]
  /\ cn = NoConn

\* Database::select / from / insert / update / delete:
\* Query::new(self.connection.clone()).<method>(arg)
Entry(m, x, nq) ==
  /\ phase \in {"new", "done"}
  /\ q' = nq
  /\ hist' = <<Call(m, x)>>
  /\ phase' = "building"
  /\ sent' = None
  /\ resp' = None
  /\ result' = None
  /\ UNCHANGED <<predVars, ddlVars, pairVars, connVars>>

DbSelect == \E c \in SelectColumns : Entry("select", c, select(Query_new, c))
DbFrom == \E t \in Tables : Entry("from", t, from(Query_new, t))
DbInsert == \E t \in Tables : Entry("insert", t, insert(Query_new, t))
DbUpdate == \E t \in Tables : Entry("update", t, update(Query_new, t))
DbDelete == \E t \in Tables : Entry("delete", t, delete(Query_new, t))

\* A builder method called on the live Query
Step(m, x, nq) ==
  /\ phase = "building"
  /\ Len(hist) < MaxCalls
  /\ q' = nq
  /\ hist' = Append(hist, Call(m, x))
  /\ UNCHANGED <<phase, sent, resp, result, predVars, ddlVars, pairVars, connVars>>

Select == \E c \in SelectColumns : Step("select", c, select(q, c))
From == \E t \in Tables : Step("from", t, from(q, t))
Where == \E p \in Preds : Step("where", p, where(q, p))
Limit == \E n \in Limits : Step("limit", n, limit(q, n))
Insert == \E t \in Tables : Step("insert", t, insert(q, t))
Values == \E r \in Rows : Step("values", r, values(q, r))
Update == \E t \in Tables : Step("update", t, update(q, t))
Set == \E r \in Rows : Step("set", r, set(q, r))
Delete == \E t \in Tables : Step("delete", t, delete(q, t))

\* ---------------------------------------------------------- terminal calls
\* A terminal call consumes the Query: it renders the SQL, hands it with the
\* parameter vector to rows() / execute() / prepare() and awaits the answer
\* of the execution layer.
Dispatch(term, op, nq) ==
  /\ phase = "building"
  /\ q' = nq
  /\ sent' = Some([term |-> term, op |-> op, sql |-> to_sql(nq), values |-> q.values])
  /\ phase' = "awaiting"
  /\ UNCHANGED <<hist, resp, result, predVars, ddlVars, pairVars, connVars>>

All == Dispatch("all", "rows", q)
Prepare == Dispatch("prepare", "prepare", q)
RowsAffected == Dispatch("rows_affected", "execute", q)
Returning ==
  \E c \in SelectColumns :
    Dispatch("returning", "rows", [q EXCEPT !.returning = Some(<<"returning", SP>> \o c)])

\* Answers of the execution layer: a failure of connection.call, a result
\* set, a number of affected rows, a cached statement
Failed(e) == [tag |-> "Failed", err |-> e]
RowSet(raw) == [tag |-> "RowSet", raw |-> raw]
Affected(n) == [tag |-> "Affected", n |-> n]
Cached == [tag |-> "Cached"]

\* Results of a terminal call
Ok(v) == [tag |-> "Ok", val |-> v]
Err(kind, msg) == [tag |-> "Err", kind |-> kind, msg |-> msg]
Panicked == [tag |-> "Panic"]

\* What connection.call(..).await can fail with: a tokio_rusqlite::Error
CallErrors ==
  {[kind |-> "ConnectionClosed", msg |-> "-"],
   [kind |-> "Close", msg |-> "busy"],
   [kind |-> "Rusqlite", msg |-> "no such table"],
   [kind |-> "Other", msg |-> "-"]}

\* impl From<tokio_rusqlite::Error> for Error, applied by `?`
FromTokioError(e) ==
  CASE e.kind = "ConnectionClosed" -> Err("ConnectionClosed", "-")
    [] e.kind = "Close" -> Err("Close", e.msg)
    [] e.kind = "Rusqlite" -> Err("Database", e.msg)
    [] OTHER -> Panicked

\* Result sets of a query as from_rows yields them: each item is a row
\* deserialized into T, or the failure to step to it or to deserialize it
RawRow(ok, row) == [ok |-> ok, row |-> row]
RawRowSets ==
  {<< >>, <<RawRow(TRUE, "r1")>>, <<RawRow(FALSE, "r1")>>,
   <<RawRow(TRUE, "r1"), RawRow(TRUE, "r2")>>,
   <<RawRow(FALSE, "r1"), RawRow(TRUE, "r2")>>}

\* from_rows(..).filter(|x| x.is_ok()).map(|x| x.unwrap()).collect()
RECURSIVE FilterOk(_)
FilterOk(raw) ==
  IF raw = << >> THEN << >>
  ELSE (IF Head(raw).ok THEN <<Head(raw).row>> ELSE << >>) \o FilterOk(Tail(raw))

AffectedCounts == {0, 1}

\* The answer arrives and the terminal call returns; the Query is gone.
Complete(term, answer, res) ==
  /\ phase = "awaiting"
  /\ Unwrap(sent).term = term
  /\ resp' = Some([term |-> term, answer |-> answer])
  /\ result' = res
  /\ phase' = "done"
  /\ q' = Query_new
  /\ hist' = << >>
  /\ sent' = None
  /\ UNCHANGED <<predVars, ddlVars, pairVars, connVars>>

\* rows(): Ok(vector of the rows that deserialize) or the converted error
AllReturns ==
  \/ \E raw \in RawRowSets : Complete("all", RowSet(raw), Ok(FilterOk(raw)))
  \/ \E e \in CallErrors : Complete("all", Failed(e), FromTokioError(e))

\* Mutant of first_or_insert_error: no row is an empty success
first_or_empty_success(rows, text) ==
  IF rows # << >> THEN Ok(rows[1]) ELSE Ok("none")

\* rows.into_iter().nth(0): Ok(row), or InsertError naming the statement
first_or_insert_error(rows, text) ==
  IF rows # << >>
  THEN Ok(rows[1])
  ELSE Err("InsertError", <<"failed to insert", SP>> \o text)

\* returning(): the first row of rows(), or InsertError when there is none
ReturningReturns ==
  \/ \E raw \in RawRowSets :
       Complete("returning", RowSet(raw),
                first_or_insert_error(FilterOk(raw), Unwrap(sent).sql))
  \/ \E e \in CallErrors : Complete("returning", Failed(e), FromTokioError(e))

\* execute(): Ok(rows affected) or the converted error
RowsAffectedReturns ==
  \/ \E n \in AffectedCounts : Complete("rows_affected", Affected(n), Ok(n))
  \/ \E e \in CallErrors : Complete("rows_affected", Failed(e), FromTokioError(e))

\* prepare(): Ok(Prep) once the statement is cached, or the converted error
PrepareReturns ==
  \/ Complete("prepare", Cached, Ok("Prep"))
  \/ \E e \in CallErrors : Complete("prepare", Failed(e), FromTokioError(e))

Next ==
  \/ DbSelect \/ DbFrom \/ DbInsert \/ DbUpdate \/ DbDelete
  \/ Select \/ From \/ Where \/ Limit
  \/ Insert \/ Values \/ Update \/ Set \/ Delete
  \/ All \/ Prepare \/ RowsAffected \/ Returning
  \/ AllReturns \/ ReturningReturns \/ RowsAffectedReturns \/ PrepareReturns

Spec == Init /\ [][Next]_vars

\* ------------------------------------------- composing predicate fragments
\* The caller builds fragments bottom-up: eq makes a leaf, and / or consume
\* the two fragments made last (left below right) and give the composite.
Columns == {accounts_id, accounts_name}

\* Arguments of every primitive kind that converts into a Value
LeafArgs == EqArgs \cup {Arg("f64", "1.5"), Arg("VecU8", "0x01")}

PCall(f, left, right) == [f |-> f, left |-> left, right |-> right]

PushEq ==
  /\ nleaves < MaxLeaves
  /\ \E c \in Columns, a \in LeafArgs :
       /\ stack' = Append(stack, eq(c, a))
       /\ pcall' = Some(PCall("eq", c, a))
  /\ nleaves' = nleaves + 1
  /\ UNCHANGED <<q, hist, phase, sent, resp, result, ddlVars, pairVars, connVars>>

Compose(f, part) ==
  /\ Len(stack) >= 2
  /\ stack' = Append(SubSeq(stack, 1, Len(stack) - 2), part)
  /\ pcall' = Some(PCall(f, stack[Len(stack) - 1], stack[Len(stack)]))
  /\ UNCHANGED <<q, hist, phase, sent, resp, result, nleaves, ddlVars, pairVars, connVars>>

And == Len(stack) >= 2 /\ Compose("and", and(stack[Len(stack) - 1], stack[Len(stack)]))
Or == Len(stack) >= 2 /\ Compose("or", or(stack[Len(stack) - 1], stack[Len(stack)]))

NextPred == PushEq \/ And \/ Or

SpecPred == Init /\ [][NextPred]_vars

\* --------------------------------------------------- migration generator
\* str::split(sep): the pieces of a text between the separator tokens
RECURSIVE SplitAcc(_, _, _)
SplitAcc(text, sep, piece) ==
  IF text = << >> THEN <<piece>>
  ELSE IF Head(text) = sep
       THEN <<piece>> \o SplitAcc(Tail(text), sep, << >>)
       ELSE SplitAcc(Tail(text), sep, Append(piece, Head(text)))

Split(text, sep) == SplitAcc(text, sep, << >>)

\* str::replace(tok, "")
RECURSIVE Strip(_, _)
Strip(text, tok) ==
  IF text = << >> THEN << >>
  ELSE (IF Head(text) = tok THEN << >> ELSE <<Head(text)>>) \o Strip(Tail(text), tok)

\* to_lowercase() of a type name
LowerCase(ty) ==
  CASE ty = "Integer" -> "integer"
    [] ty = "Text" -> "text"
    [] ty = "Real" -> "real"
    [] ty = "Blob" -> "blob"
    [] OTHER -> ty

\* Iterator::filter_map over a vector of options
RECURSIVE SelectSeqIdx(_, _)
SelectSeqIdx(xs, keep) ==
  IF xs = << >> THEN << >>
  ELSE (IF keep[Head(xs)] THEN <<Head(xs)>> ELSE << >>) \o SelectSeqIdx(Tail(xs), keep)

\* One column definition: name, lowercased type, then the modifiers of the
\* field's attribute in the order primary key, unique, not null, default,
\* references
column_def(f) ==
  LET a == IF IsSome(f.attr) THEN Unwrap(f.attr)
           ELSE RizzAttr(FALSE, FALSE, FALSE, << >>, << >>)
      parts == << Some(<<f.ident>>), Some(<<LowerCase(f.ty)>>),
                  IF a.primary_key THEN Some(<<"primary", SP, "key">>) ELSE None,
                  IF a.unique THEN Some(<<"unique">>) ELSE None,
                  IF a.not_null THEN Some(<<"not", SP, "null">>) ELSE None,
                  IF IsSome(a.default_value)
                    THEN Some(<<"default", SP, "(">> \o a.default_value \o <<")">>)
                    ELSE None,
                  IF IsSome(a.references)
                    THEN Some(<<"references", SP>> \o a.references)
                    ELSE None >>
  IN Join(FilterSome(parts), <<SP>>)

\* column_fields: the fields whose type is not Index
column_fields(t) ==
  SelectSeqIdx([i \in 1..Len(t.fields) |-> i],
               [i \in 1..Len(t.fields) |-> t.fields[i].ty # "Index"])

column_defs(t) ==
  LET idx == column_fields(t) IN [k \in 1..Len(idx) |-> column_def(t.fields[idx[k]])]

Sql(text) == [tag |-> "Sql", text |-> text]

create_table_sql(t) ==
  Sql(<<"create", SP, "table", SP, "if", SP, "not", SP, "exists", SP>>
        \o table_name(t) \o <<SP, "(">> \o Join(column_defs(t), <<",">>) \o <<")", ";">>)

\* name.split(".").nth(1).expect(..).replace("\"", ""): None stands for
\* the failed expect
\* Mutant of unqualified: a name without a dot is taken whole
unqualified_or_whole_name(name) ==
  IF Len(Split(name, ".")) >= 2 THEN Some(Strip(Split(name, ".")[2], DQ))
  ELSE Some(Strip(name, DQ))

unqualified(name) ==
  IF Len(Split(name, ".")) >= 2 THEN Some(Strip(Split(name, ".")[2], DQ)) ELSE None

\* Mutant of MatchingDefs: every definition matches
MatchingDefs_every_column(t, bare) ==
  [i \in 1..Len(column_defs(t)) |-> i]

\* The column definitions whose first space-separated piece is the name
MatchingDefs(t, bare) ==
  LET defs == column_defs(t) IN
    SelectSeqIdx([i \in 1..Len(defs) |-> i],
                 [i \in 1..Len(defs) |-> Split(defs[i], SP)[1] = bare])

\* Mutant of add_column_sql: an unknown column gets a bare definition
add_column_sql_unknown_as_bare(t, column_name) ==
  IF unqualified(column_name) = None THEN Panicked
  ELSE LET bare == Unwrap(unqualified(column_name))
           hits == MatchingDefs(t, bare)
       IN Sql(<<"alter", SP, "table", SP>> \o table_name(t)
                \o <<SP, "add", SP, "column", SP>>
                \o (IF hits # << >> THEN column_defs(t)[hits[1]] ELSE bare)
                \o <<";">>)

add_column_sql(t, column_name) ==
  IF unqualified(column_name) = None THEN Panicked
  ELSE LET bare == Unwrap(unqualified(column_name))
           hits == MatchingDefs(t, bare)
       IN IF hits # << >>
          THEN Sql(<<"alter", SP, "table", SP>> \o table_name(t)
                     \o <<SP, "add", SP, "column", SP>>
                     \o column_defs(t)[hits[1]] \o <<";">>)
          ELSE Panicked

\* bare_column_names: every name unqualified, or None when one expect fails
bare_column_names(column_names) ==
  IF \E i \in 1..Len(column_names) : unqualified(column_names[i]) = None
  THEN None
  ELSE Some([i \in 1..Len(column_names) |-> Unwrap(unqualified(column_names[i]))])

\* format!("{}_{}", bare_table_name, bare_column_names.join("_"))
index_name(t, bare) == Strip(table_name(t), DQ) \o <<"_">> \o Join(bare, <<"_">>)

\* Mutant of create_index_sql: the unique flag is ignored
create_index_sql_never_unique(t, unique, column_names) ==
  IF bare_column_names(column_names) = None THEN Panicked
  ELSE LET bare == Unwrap(bare_column_names(column_names)) IN
    Sql(<<"create", SP, "index", SP>> \o index_name(t, bare)
          \o <<SP, "on", SP>> \o Strip(table_name(t), DQ)
          \o <<SP, "(">> \o Join(bare, <<",">>) \o <<")", ";">>)

create_index_sql(t, unique, column_names) ==
  IF bare_column_names(column_names) = None THEN Panicked
  ELSE LET bare == Unwrap(bare_column_names(column_names)) IN
    Sql(<<"create">> \o (IF unique = TRUE THEN <<SP, "unique", SP>> ELSE <<SP>>)
          \o <<"index", SP>> \o index_name(t, bare)
          \o <<SP, "on", SP>> \o Strip(table_name(t), DQ)
          \o <<SP, "(">> \o Join(bare, <<",">>) \o <<")", ";">>)

\* Mutant of drop_index_sql: the name is built from the quoted table name
drop_index_sql_quoted_table(t, column_names) ==
  IF bare_column_names(column_names) = None THEN Panicked
  ELSE LET bare == Unwrap(bare_column_names(column_names)) IN
    Sql(<<"drop", SP, "index", SP>>
          \o table_name(t) \o <<"_">> \o Join(bare, <<"_">>) \o <<";">>)

drop_index_sql(t, column_names) ==
  IF bare_column_names(column_names) = None THEN Panicked
  ELSE LET bare == Unwrap(bare_column_names(column_names)) IN
    Sql(<<"drop", SP, "index", SP>> \o index_name(t, bare) \o <<";">>)

\* Column names a caller passes: dotted, the quoted handle, a column the
\* table does not have, and a name without the table
ColumnNameArgs ==
  {<<"accounts", ".", "id">>, accounts_name,
   <<"accounts", ".", "missing">>, <<"id">>}

\* Number of columns of an index
MaxIndexCols == 2

\* Column lists of an index: each name once, in any order
IndexColumnArgs == {<<"accounts", ".", "id">>, accounts_name, <<"id">>}

ColumnNameLists ==
  UNION {{ns \in [1..n -> IndexColumnArgs] :
            \A i, j \in 1..n : i # j => ns[i] # ns[j]} : n \in 1..MaxIndexCols}

Generated(t, args, out) == Some([table |-> t, args |-> args, out |-> out])

CreateTableSql ==
  /\ \E t \in Tables :
       ddl' = [ddl EXCEPT !.create_table = Generated(t, << >>, create_table_sql(t))]
  /\ UNCHANGED <<builderVars, predVars, pairVars, connVars>>

AddColumnSql ==
  /\ \E t \in Tables, n \in ColumnNameArgs :
       ddl' = [ddl EXCEPT !.add_column = Generated(t, n, add_column_sql(t, n))]
  /\ UNCHANGED <<builderVars, predVars, pairVars, connVars>>

CreateIndexSql ==
  /\ \E t \in Tables, u \in BOOLEAN, ns \in ColumnNameLists :
       ddl' = [ddl EXCEPT !.create_index =
                 Generated(t, [unique |-> u, names |-> ns], create_index_sql(t, u, ns))]
  /\ UNCHANGED <<builderVars, predVars, pairVars, connVars>>

DropIndexSql ==
  /\ \E t \in Tables, ns \in ColumnNameLists :
       ddl' = [ddl EXCEPT !.drop_index =
                 Generated(t, [names |-> ns], drop_index_sql(t, ns))]
  /\ UNCHANGED <<builderVars, predVars, pairVars, connVars>>

NextDdl == CreateTableSql \/ AddColumnSql \/ CreateIndexSql \/ DropIndexSql

SpecDdl == Init /\ [][NextDdl]_vars

\* ------------------------------------------- two builders of one Database
\* Builder calls made on each of the two Query values
MaxPairCalls == 2

\* What the two builders are called with
PairColumns == {star}
PairPreds == {eq(accounts_id, Arg("str", "1"))}
PairRows == {RowInst(AccountCols, <<Arg("i64", "1"), Arg("String", "x")>>)}
PairLimits == {1}

\* Mutant of EntryOn: the new builder starts from the slots of the other one
EntryOn_shares_the_other_builder(i, m, x, nq) ==
  /\ pair[i].hist = << >>
  /\ pair' = [pair EXCEPT ![i] =
               [q |-> [s \in DOMAIN nq |->
                         IF nq[s] # None THEN nq[s] ELSE pair[3 - i].q[s]],
                hist |-> <<Call(m, x)>>]]
  /\ UNCHANGED <<builderVars, predVars, ddlVars, connVars>>

\* Database::select / from / insert / update / delete giving builder i:
\* nq is the method applied to Query::new(self.connection.clone())
EntryOn(i, m, x, nq) ==
  /\ pair[i].hist = << >>
  /\ pair' = [pair EXCEPT ![i] = [q |-> nq, hist |-> <<Call(m, x)>>]]
  /\ UNCHANGED <<builderVars, predVars, ddlVars, connVars>>

\* A builder method called on builder i, which it consumes and returns
StepOn(i, m, x, nq) ==
  /\ pair[i].hist # << >>
  /\ Len(pair[i].hist) < MaxPairCalls
  /\ pair' = [pair EXCEPT ![i] = [q |-> nq, hist |-> Append(pair[i].hist, Call(m, x))]]
  /\ UNCHANGED <<builderVars, predVars, ddlVars, connVars>>

PairDbSelect ==
  \E i \in Builders, c \in PairColumns : EntryOn(i, "select", c, select(Query_new, c))
PairDbFrom ==
  \E i \in Builders, t \in Tables : EntryOn(i, "from", t, from(Query_new, t))
PairDbInsert ==
  \E i \in Builders, t \in Tables : EntryOn(i, "insert", t, insert(Query_new, t))
PairDbUpdate ==
  \E i \in Builders, t \in Tables : EntryOn(i, "update", t, update(Query_new, t))
PairDbDelete ==
  \E i \in Builders, t \in Tables : EntryOn(i, "delete", t, delete(Query_new, t))

PairSelect ==
  \E i \in Builders, c \in PairColumns : StepOn(i, "select", c, select(pair[i].q, c))
PairFrom ==
  \E i \in Builders, t \in Tables : StepOn(i, "from", t, from(pair[i].q, t))
PairWhere ==
  \E i \in Builders, p \in PairPreds : StepOn(i, "where", p, where(pair[i].q, p))
PairLimit ==
  \E i \in Builders, n \in PairLimits : StepOn(i, "limit", n, limit(pair[i].q, n))
PairInsert ==
  \E i \in Builders, t \in Tables : StepOn(i, "insert", t, insert(pair[i].q, t))
PairValues ==
  \E i \in Builders, r \in PairRows : StepOn(i, "values", r, values(pair[i].q, r))
PairUpdate ==
  \E i \in Builders, t \in Tables : StepOn(i, "update", t, update(pair[i].q, t))
PairSet ==
  \E i \in Builders, r \in PairRows : StepOn(i, "set", r, set(pair[i].q, r))
PairDelete ==
  \E i \in Builders, t \in Tables : StepOn(i, "delete", t, delete(pair[i].q, t))

NextPair ==
  \/ PairDbSelect \/ PairDbFrom \/ PairDbInsert \/ PairDbUpdate \/ PairDbDelete
  \/ PairSelect \/ PairFrom \/ PairWhere \/ PairLimit
  \/ PairInsert \/ PairValues \/ PairUpdate \/ PairSet \/ PairDelete

SpecPair == Init /\ [][NextPair]_vars

\* ------------------------------------------------ Connection and Database
\* Pragma statements accumulated on one Connection
MaxPragmas == 2

\* OpenFlags::default()
DefaultOpenFlags ==
  {"SQLITE_OPEN_READ_WRITE", "SQLITE_OPEN_CREATE", "SQLITE_OPEN_URI",
   "SQLITE_OPEN_NO_MUTEX"}

Connection_new(path) ==
  [path |-> path, conn |-> None, open_flags |-> DefaultOpenFlags, pragma |-> None]

create_if_missing(self, arg) ==
  IF ~arg
  THEN [self EXCEPT !.open_flags = self.open_flags \ {"SQLITE_OPEN_CREATE"}]
  ELSE self

read_only(self, arg) ==
  IF arg = TRUE
  THEN [self EXCEPT !.open_flags = self.open_flags \cup {"SQLITE_OPEN_READ_ONLY"}]
  ELSE self

\* push_str onto the accumulated pragma text, or the first statement
push_pragma(self, s) ==
  [self EXCEPT !.pragma = IF IsSome(self.pragma)
                          THEN Some(Unwrap(self.pragma) \o s)
                          ELSE Some(s)]

pragma(self, statement) == push_pragma(self, <<"PRAGMA", SP, statement, ";">>)

JournalModes == {"Delete", "Truncate", "Persist", "Memory", "Wal", "Off"}

journal_mode(self, mode) ==
  LET value == CASE mode = "Delete" -> "DELETE"
                 [] mode = "Truncate" -> "TRUNCATE"
                 [] mode = "Persist" -> "PERSIST"
                 [] mode = "Memory" -> "MEMORY"
                 [] mode = "Wal" -> "WAL"
                 [] mode = "Off" -> "OFF"
  IN push_pragma(self, <<"PRAGMA", SP, "journal_mode", SP, "=", SP, value, ";">>)

SynchronousModes == {"Off", "Normal", "Full", "Extra"}

synchronous(self, sync) ==
  LET value == CASE sync = "Off" -> "OFF"
                 [] sync = "Normal" -> "NORMAL"
                 [] sync = "Full" -> "FULL"
                 [] sync = "Extra" -> "EXTRA"
  IN push_pragma(self, <<"PRAGMA", SP, "synchronous", SP, "=", SP, value, ";">>)

\* Mutant of Database_new: the connection is taken over unchecked
Database_new_unchecked(connection) ==
  Ok([connection |-> connection.conn])

\* Database::new: connection.conn.expect("Database file not found")
Database_new(connection) ==
  IF IsSome(connection.conn)
  THEN Ok([connection |-> connection.conn])
  ELSE Panicked

\* What the caller passes
Paths == {":memory:"}
PragmaStatements == {"foreign_keys = on"}

\* db.execute_batch("create table accounts (id)")
CreateAccounts == <<"create table accounts (id)">>

\* Batches run through one Database
MaxBatches == 1

\* What reaches the storage engine
EngineCall(op, arg) == [op |-> op, arg |-> arg]

\* The handle tokio_rusqlite::Connection::open returns
Handle == "tokio_rusqlite::Connection"

\* connection(path): a Connection that is not opened
ConnectionNew ==
  /\ cn.c = None
  /\ \E path \in Paths : cn' = [NoConn EXCEPT !.c = Some(Connection_new(path))]
  /\ UNCHANGED <<builderVars, predVars, ddlVars, pairVars>>

\* A configuring method called on the Connection the caller holds
Configure(nc) ==
  /\ IsSome(cn.c)
  /\ Unwrap(cn.c).conn = None
  /\ cn' = [cn EXCEPT !.c = Some(nc)]
  /\ UNCHANGED <<builderVars, predVars, ddlVars, pairVars>>

PragmaRoom == CountTok(IF IsSome(cn.c) /\ IsSome(Unwrap(cn.c).pragma)
                       THEN Unwrap(Unwrap(cn.c).pragma) ELSE << >>, ";") < MaxPragmas

CreateIfMissing == \E arg \in BOOLEAN : Configure(create_if_missing(Unwrap(cn.c), arg))
ReadOnly == \E arg \in BOOLEAN : Configure(read_only(Unwrap(cn.c), arg))
Pragma ==
  PragmaRoom /\ \E st \in PragmaStatements : Configure(pragma(Unwrap(cn.c), st))
JournalMode ==
  PragmaRoom /\ \E mode \in JournalModes : Configure(journal_mode(Unwrap(cn.c), mode))
Synchronous ==
  PragmaRoom /\ \E sync \in SynchronousModes : Configure(synchronous(Unwrap(cn.c), sync))

\* Connection::open consumes the Connection. The engine may fail to open
\* the file, or fail on the pragma batch; either failure leaves open by `?`
\* and the Connection is gone. Otherwise conn is set and the Connection is
\* returned.
Open ==
  /\ IsSome(cn.c)
  /\ Unwrap(cn.c).conn = None
  /\ LET self == Unwrap(cn.c)
         opening == <<EngineCall("open", <<self.path>>)>>
         batch == IF IsSome(self.pragma)
                  THEN <<EngineCall("execute_batch", Unwrap(self.pragma))>>
                  ELSE << >>
     IN \/ \E e \in CallErrors :
             cn' = [cn EXCEPT !.c = None, !.opened = Some(FromTokioError(e)),
                              !.engine = opening]
        \/ /\ IsSome(self.pragma)
           /\ \E e \in CallErrors :
                cn' = [cn EXCEPT !.c = None, !.opened = Some(FromTokioError(e)),
                                 !.engine = opening \o batch]
        \/ cn' = [cn EXCEPT !.c = Some([self EXCEPT !.conn = Some(Handle)]),
                            !.opened = Some(Ok([self EXCEPT !.conn = Some(Handle)])),
                            !.engine = opening \o batch]
  /\ UNCHANGED <<builderVars, predVars, ddlVars, pairVars>>

\* db(connection): Database::new(connection), which consumes the Connection
Db ==
  /\ IsSome(cn.c)
  /\ cn' = [cn EXCEPT !.c = None,
                      !.db = Some([arg |-> Unwrap(cn.c),
                                   out |-> Database_new(Unwrap(cn.c))])]
  /\ UNCHANGED <<builderVars, predVars, ddlVars, pairVars>>

\* Database::execute_batch, and every terminal call of a Query made from the
\* Database, runs on the Database's connection
DbExecuteBatch ==
  /\ IsSome(cn.db)
  /\ Unwrap(cn.db).out.tag = "Ok"
  /\ Cardinality({i \in 1..Len(cn.engine) : cn.engine[i].arg = CreateAccounts})
       < MaxBatches
  /\ cn' = [cn EXCEPT !.engine =
              Append(cn.engine, EngineCall("execute_batch", CreateAccounts))]
  /\ UNCHANGED <<builderVars, predVars, ddlVars, pairVars>>

NextConn ==
  \/ ConnectionNew \/ CreateIfMissing \/ ReadOnly \/ Pragma \/ JournalMode
  \/ Synchronous \/ Open \/ Db \/ DbExecuteBatch

SpecConn == Init /\ [][NextConn]_vars

\* ------------------------------------------------------ derived quantities
\* The parameter vector as the execution layer sees it (None binds nothing)
Params(self) == IF IsSome(self.values) THEN Unwrap(self.values) ELSE << >>

BindableKinds == {"Text", "Blob", "Real", "Integer"}

\* The clause slots in the order of the rendered statement
SlotOrder ==
  <<"select", "from", "insert_into", "values_sql", "update", "set",
    "delete", "where", "returning", "limit">>

TextSlots == {SlotOrder[i] : i \in 1..Len(SlotOrder)}

Present(self) == {s \in TextSlots : IsSome(self[s])}

\* The builder calls of hist replayed on a fresh Query
ApplyCall(self, c) ==
  CASE c.m = "select" -> select(self, c.x)
    [] c.m = "from" -> from(self, c.x)
    [] c.m = "where" -> where(self, c.x)
    [] c.m = "limit" -> limit(self, c.x)
    [] c.m = "insert" -> insert(self, c.x)
    [] c.m = "values" -> values(self, c.x)
    [] c.m = "update" -> update(self, c.x)
    [] c.m = "set" -> set(self, c.x)
    [] c.m = "delete" -> delete(self, c.x)

RECURSIVE Run(_, _)
Run(self, calls) ==
  IF calls = << >> THEN self ELSE Run(ApplyCall(self, Head(calls)), Tail(calls))

Perms(n) == {p \in [1..n -> 1..n] : \A i, j \in 1..n : p[i] = p[j] => i = j}

DistinctMethods(calls) ==
  \A i, j \in 1..Len(calls) : calls[i].m = calls[j].m => i = j

\* ------------------------------------------------------------------ claims

\* C1: after any sequence of builder calls the parameter vector has exactly
\* one entry per `?` placeholder of the rendered SQL.
C1_ParamsMatchPlaceholders == CountQM(sql(q)) = Len(Params(q))

\* C2: only Text, Blob, Real and Integer values are collected into the
\* parameter vector and handed to the execution layer; a Lit never is.
C2_OnlyBindableParams ==
  /\ \A i \in 1..Len(Params(q)) : Params(q)[i].kind \in BindableKinds
  /\ IsSome(sent) =>
       \A i \in 1..Len(Params(Unwrap(sent))) :
          Params(Unwrap(sent))[i].kind \in BindableKinds

\* C3: sql() is exactly the texts of the present slots in the order select,
\* from, insert_into, values, update, set, delete, where, returning, limit,
\* with one space between neighbours and nothing before, after or doubled;
\* it is empty when no slot is set.
RECURSIVE RenderFrom(_, _, _)
RenderFrom(self, i, acc) ==
  IF i > Len(SlotOrder) THEN acc
  ELSE IF IsSome(self[SlotOrder[i]])
       THEN RenderFrom(self, i + 1,
              IF acc = << >> THEN Unwrap(self[SlotOrder[i]])
              ELSE acc \o <<SP>> \o Unwrap(self[SlotOrder[i]]))
       ELSE RenderFrom(self, i + 1, acc)

C3_SqlIsSlotsInFixedOrder ==
  LET text == sql(q) IN
    /\ text = RenderFrom(q, 1, << >>)
    /\ (Present(q) = {}) <=> (text = << >>)
    /\ text # << >> => text[1] # SP /\ text[Len(text)] # SP
    /\ \A i \in 1..(Len(text) - 1) : ~(text[i] = SP /\ text[i + 1] = SP)

C3_Witness ==
  /\ phase = "awaiting"
  /\ Present(q) = {"update", "set", "where", "returning"}

\* C4: the rendered SQL text does not depend on the order of the builder
\* calls: any reordering of calls that use each clause method at most once
\* renders the same text.
C4_SqlInvariantUnderCallOrder ==
  (phase = "building" /\ DistinctMethods(hist)) =>
    \A p \in Perms(Len(hist)) :
      sql(Run(Query_new, [i \in 1..Len(hist) |-> hist[p[i]]])) = sql(q)

C4_Witness ==
  /\ phase = "building"
  /\ Len(hist) = 3
  /\ hist[1].m = "from" /\ hist[2].m = "where" /\ hist[3].m = "select"
  /\ sql(q) = sql(Run(Query_new, <<hist[3], hist[1], hist[2]>>))

\* C5: whatever builder calls were made, the statement handed to the
\* execution layer has one legal shape: select..from.., insert into..values..,
\* update..set.. or delete from.., with only the clauses that shape allows.
LegalShape(self) ==
  LET P == Present(self) IN
    \/ {"select", "from"} \subseteq P
         /\ P \subseteq {"select", "from", "where", "limit"}
    \/ {"insert_into", "values_sql"} \subseteq P
         /\ P \subseteq {"insert_into", "values_sql", "returning"}
    \/ {"update", "set"} \subseteq P
         /\ P \subseteq {"update", "set", "where", "returning"}
    \/ {"delete"} \subseteq P
         /\ P \subseteq {"delete", "where", "returning"}

C5_RenderedSqlWellFormed == phase = "awaiting" => LegalShape(q)

\* A step that makes one more builder call on the live Query
IsCall(m) ==
  /\ phase = "building" /\ phase' = "building"
  /\ Len(hist') = Len(hist) + 1
  /\ hist'[Len(hist')].m = m

\* C6: once the where slot holds `where <P1>`, a later where(P) call, and
\* every other call on that builder, leaves the where-clause text unchanged.
C6_WhereTextSetOnFirstCallOnly ==
  [][(phase = "building" /\ IsSome(q.where)) => q'.where = q.where]_vars

C6_Witness ==
  /\ phase = "building"
  /\ Len(hist) = 3
  /\ hist[2].m = "where" /\ hist[3].m = "where"
  /\ hist[2].x.clause # hist[3].x.clause
  /\ q.where = Some(<<"where", SP>> \o hist[2].x.clause)

\* C7: every where(P) call, first or repeated, appends P.values to the end
\* of the parameter vector (an absent vector counts as empty) and keeps the
\* entries already there in place.
C7_WhereAppendsValues ==
  [][IsCall("where") =>
       q'.values = Some(Params(q) \o hist'[Len(hist')].x.values)]_vars

C7_Witness ==
  /\ phase = "building"
  /\ Len(hist) = 3
  /\ hist[2].m = "where" /\ hist[3].m = "where"
  /\ q.where = Some(<<"where", SP>> \o hist[2].x.clause)
  /\ hist[2].x.values # hist[3].x.values
  /\ Params(q) = hist[2].x.values \o hist[3].x.values

\* C8: set(row) replaces the whole parameter vector by row.values(),
\* whatever values, set or where calls put there before, and sets the
\* set-clause text to row.set_sql().
C8_SetOverwritesParams ==
  [][IsCall("set") =>
       /\ q'.values = Some(RowValues(hist'[Len(hist')].x))
       /\ q'.set = Some(RowSetSql(hist'[Len(hist')].x))]_vars

C8_Witness ==
  /\ phase = "building"
  /\ Len(hist) = 3
  /\ hist[2].m = "where" /\ hist[3].m = "set"
  /\ Params(q) = RowValues(hist[3].x)
  /\ \A i \in 1..Len(Params(q)) : Params(q)[i] # hist[2].x.values[1]

\* C9: insert(T).values(row) renders `<T.insert_sql()> <row.insert_sql()>`
\* and its parameter vector is row.values() in declared column order, one
\* parameter per `?` of the values clause: [Integer(1), Text("x")] for the
\* row (1, "x").
RowOneX == RowInst(AccountCols, <<Arg("i64", "1"), Arg("String", "x")>>)

C9_InsertValues ==
  (phase = "building" /\ Len(hist) = 2
     /\ hist[1].m = "insert" /\ hist[2].m = "values") =>
    /\ sql(q) = TableInsertSql(hist[1].x) \o <<SP>> \o RowInsertSql(hist[2].x)
    /\ q.values = Some(RowValues(hist[2].x))
    /\ Len(Params(q)) = CountQM(Unwrap(q.values_sql))
    /\ Len(Params(q)) = Len(hist[2].x.cols)
    /\ hist[2].x = RowOneX => Params(q) = <<Integer("1"), Text("x")>>

C9_Witness ==
  /\ phase = "building" /\ Len(hist) = 2
  /\ hist[1].m = "insert" /\ hist[2].m = "values"
  /\ hist[2].x = RowOneX
  /\ Params(q) = <<Integer("1"), Text("x")>>

\* C10: in every fragment built by any nesting of eq, and, or the number
\* of `?` placeholders of the clause equals the length of the value list.
C10_FragmentPlaceholdersMatchValues ==
  \A i \in 1..Len(stack) : CountQM(stack[i].clause) = Len(stack[i].values)

C10_Witness ==
  \E i \in 1..Len(stack) :
    /\ Len(stack[i].values) = 3
    /\ CountQM(stack[i].clause) = 3
    /\ stack[i].clause[2] = "("

\* All values held by the fragments of the stack, bottom to top
RECURSIVE FlatValues(_)
FlatValues(parts) ==
  IF parts = << >> THEN << >>
  ELSE Head(parts).values \o FlatValues(Tail(parts))

\* C11: and(L,R) renders `(<L> and <R>)`, or(L,R) renders `(<L> or <R>)`,
\* with one parenthesis pair per composite at any nesting depth, and the
\* result's values are L.values followed by R.values, so the values of the
\* fragments stay in the left-to-right order of their leaves.
C11_CompositeRendersAndConcatenates ==
  [][Len(stack') = Len(stack) - 1 =>
       LET L == stack[Len(stack) - 1]
           R == stack[Len(stack)]
           f == Unwrap(pcall').f
           top == stack'[Len(stack')]
       IN /\ f \in {"and", "or"}
          /\ top.clause = <<"(">> \o L.clause \o <<SP, f, SP>> \o R.clause \o <<")">>
          /\ CountTok(top.clause, "(") = CountTok(L.clause, "(") + CountTok(R.clause, "(") + 1
          /\ CountTok(top.clause, ")") = CountTok(top.clause, "(")
          /\ top.values = L.values \o R.values
          /\ FlatValues(stack') = FlatValues(stack)]_vars

C11_Witness ==
  /\ IsSome(pcall) /\ Unwrap(pcall).f = "or"
  /\ Unwrap(pcall).left.clause[1] = "("
  /\ CountTok(Unwrap(pcall).left.clause, "and") = 1
  /\ Len(stack) = 1
  /\ Len(stack[1].values) = 3
  /\ stack[1].values[1] # stack[1].values[3]

\* C12: eq(column, v) renders `<qualified-column> = ?` with exactly one `?`
\* and a one-element value list holding v as its Value variant: text as
\* Text, i64 as Integer, f64 as Real, bytes as Blob.
VariantOf(ty) ==
  CASE ty \in {"String", "str", "ArcStr"} -> "Text"
    [] ty = "i64" -> "Integer"
    [] ty = "f64" -> "Real"
    [] ty = "VecU8" -> "Blob"

PrimitiveTypes == {"String", "str", "ArcStr", "i64", "f64", "VecU8"}

C12_EqRendersOnePlaceholder ==
  (IsSome(pcall) /\ Unwrap(pcall).f = "eq") =>
    LET c == Unwrap(pcall).left
        a == Unwrap(pcall).right
        top == stack[Len(stack)]
    IN /\ top.clause = c \o <<SP, "=", SP, QM>>
       /\ CountQM(top.clause) = 1
       /\ Len(top.values) = 1
       /\ a.ty \in PrimitiveTypes =>
            top.values[1] = [kind |-> VariantOf(a.ty), v |-> a.v]

C12_Witness ==
  /\ IsSome(pcall) /\ Unwrap(pcall).f = "eq"
  /\ Unwrap(pcall).right.ty = "f64"
  /\ stack[Len(stack)].values = <<Real("1.5")>>
  /\ Len(stack) = 2

\* C13: select(cols).from(T).where(P) renders exactly
\* `select <cols> from <T.table_name()> where <P.clause>` with parameter
\* vector P.values; for table "accounts" and eq(accounts.id, "1") it is
\* `select * from "accounts" where "accounts"."id" = ?` with [Text("1")].
IdEqualsTextOne == eq(accounts_id, Arg("str", "1"))

C13_SelectFromWhere ==
  (phase = "building" /\ Len(hist) = 3 /\ hist[1].m = "select"
     /\ hist[2].m = "from" /\ hist[3].m = "where") =>
    /\ sql(q) = <<"select", SP>> \o hist[1].x \o <<SP, "from", SP>>
                  \o <<DQ, hist[2].x.name, DQ>> \o <<SP, "where", SP>>
                  \o hist[3].x.clause
    /\ q.values = Some(hist[3].x.values)
    /\ (hist[1].x = star /\ hist[2].x.name = "accounts"
          /\ hist[3].x = IdEqualsTextOne) =>
         /\ sql(q) = <<"select", SP, "*", SP, "from", SP, DQ, "accounts", DQ, SP,
                       "where", SP, DQ, "accounts", DQ, ".", DQ, "id", DQ,
                       SP, "=", SP, QM>>
         /\ Params(q) = <<Text("1")>>

C13_Witness ==
  /\ phase = "building" /\ Len(hist) = 3
  /\ hist[1].m = "select" /\ hist[2].m = "from" /\ hist[3].m = "where"
  /\ hist[1].x = star /\ hist[3].x = IdEqualsTextOne
  /\ Params(q) = <<Text("1")>>

\* The terminal call that just returned and the answer it got
Returned(term) == phase = "done" /\ IsSome(resp) /\ Unwrap(resp).term = term
Answer == Unwrap(resp).answer

\* C14: returning on a statement whose execution yields zero rows returns
\* Err(InsertError), never an Ok result.
C14_ReturningZeroRowsIsInsertError ==
  (Returned("returning") /\ Answer.tag = "RowSet" /\ Answer.raw = << >>) =>
    /\ result.tag = "Err"
    /\ result.kind = "InsertError"

C14_Witness ==
  /\ Returned("returning") /\ Answer.tag = "RowSet" /\ Answer.raw = << >>
  /\ result.tag = "Err" /\ result.kind = "InsertError"
  /\ CountTok(result.msg, "returning") = 1

\* C15: returning gives Ok(row) only when the executed statement produced
\* exactly one result row.
C15_ReturningOkOnlyForOneRow ==
  (Returned("returning") /\ result.tag = "Ok") =>
    Answer.tag = "RowSet" /\ Len(Answer.raw) = 1

\* C16: every failure the execution layer reports during a terminal call is
\* returned as an Err of the matching kind, with the message passed through;
\* none is swallowed, turned into a success or turned into an abort.
MatchingKind(k) ==
  CASE k = "ConnectionClosed" -> "ConnectionClosed"
    [] k = "Close" -> "Close"
    [] OTHER -> "Database"

C16_FailuresSurfaceAsErr ==
  (phase = "done" /\ IsSome(resp)) =>
    /\ Answer.tag = "Failed" =>
         /\ result.tag = "Err"
         /\ result.kind = MatchingKind(Answer.err.kind)
         /\ result.msg = Answer.err.msg
    /\ (Answer.tag = "RowSet" /\ \E i \in 1..Len(Answer.raw) : ~Answer.raw[i].ok) =>
         result.tag = "Err"

\* A generated statement, once the generator named by the slot has run
Out(slot) == Unwrap(ddl[slot]).out
In(slot) == Unwrap(ddl[slot]).args

\* Position of the first occurrence of a token in a text
IndexOf(text, tok) ==
  CHOOSE i \in 1..Len(text) : text[i] = tok /\ \A j \in 1..(i - 1) : text[j] # tok

\* The index name as it stands in the statement: between `index ` and ` on`
\* in a create statement, between `drop index ` and `;` in a drop statement
CreatedIndexName(text) ==
  SubSeq(text, IndexOf(text, "index") + 2, IndexOf(text, "on") - 2)

DroppedIndexName(text) == SubSeq(text, IndexOf(text, "index") + 2, Len(text) - 1)

\* C17: for one table and one column list, create_index_sql (with either
\* value of unique) and drop_index_sql name the same index, so the drop
\* statement targets the index the create statement made.
C17_CreateAndDropNameTheSameIndex ==
  ( /\ IsSome(ddl.create_index) /\ IsSome(ddl.drop_index)
    /\ Unwrap(ddl.create_index).table = Unwrap(ddl.drop_index).table
    /\ In("create_index").names = In("drop_index").names
    /\ Out("create_index").tag = "Sql" ) =>
      /\ Out("drop_index").tag = "Sql"
      /\ CreatedIndexName(Out("create_index").text)
           = DroppedIndexName(Out("drop_index").text)

C17_Witness ==
  /\ IsSome(ddl.create_index) /\ IsSome(ddl.drop_index)
  /\ In("create_index").unique = TRUE
  /\ In("create_index").names = << <<"accounts", ".", "id">>, accounts_name >>
  /\ In("drop_index").names = In("create_index").names
  /\ CreatedIndexName(Out("create_index").text)
       = <<"accounts", "_", "id", "_", "name">>
  /\ DroppedIndexName(Out("drop_index").text)
       = <<"accounts", "_", "id", "_", "name">>

\* A qualified column name, and the identifier after its dot without quotes
Qualified(name) == \E i \in 1..Len(name) : name[i] = "."

BareOf(name) ==
  IF name[Len(name)] = DQ THEN <<name[Len(name) - 1]>> ELSE <<name[Len(name)]>>

BareColumns(names) == [i \in 1..Len(names) |-> BareOf(names[i])]

\* C18: for qualified column names, create_index_sql renders
\* `create index <name> on <table> (<cols>);`, or `create unique index ...`
\* when unique is true, where <name> is the bare table name and the bare
\* column names in the given order joined by underscores and <cols> is the
\* bare column names in that order joined by commas.
C18_CreateIndexRendering ==
  ( /\ IsSome(ddl.create_index)
    /\ \A i \in 1..Len(In("create_index").names) :
         Qualified(In("create_index").names[i]) ) =>
      LET t == Unwrap(ddl.create_index).table
          cols == BareColumns(In("create_index").names)
          name == Join(<< <<t.name>> >> \o cols, <<"_">>)
      IN Out("create_index") =
           Sql(<<"create", SP>>
                 \o (IF In("create_index").unique THEN <<"unique", SP>> ELSE << >>)
                 \o <<"index", SP>> \o name \o <<SP, "on", SP, t.name, SP, "(">>
                 \o Join(cols, <<",">>) \o <<")", ";">>)

C18_Witness ==
  /\ IsSome(ddl.create_index)
  /\ In("create_index").unique = TRUE
  /\ In("create_index").names = << accounts_name, <<"accounts", ".", "id">> >>
  /\ Out("create_index") =
       Sql(<<"create", SP, "unique", SP, "index", SP,
             "accounts", "_", "name", "_", "id", SP, "on", SP, "accounts", SP,
             "(", "name", ",", "id", ")", ";">>)

\* The identifiers of the tables and columns the statements mention
Identifiers == {"accounts", "id", "name", "missing"}

DoubleQuoted(text) ==
  \A i \in 1..Len(text) :
    text[i] \in Identifiers =>
      /\ i > 1 /\ i < Len(text)
      /\ text[i - 1] = DQ /\ text[i + 1] = DQ

\* C19: every identifier in generated SQL is wrapped in double quotes: in
\* create_table_sql, add_column_sql, create_index_sql, drop_index_sql and
\* the builder's from clause.
C19_GeneratedSqlQuotesIdentifiers ==
  /\ \A slot \in {"create_table", "add_column", "create_index", "drop_index"} :
       (IsSome(ddl[slot]) /\ Out(slot).tag = "Sql") => DoubleQuoted(Out(slot).text)
  /\ IsSome(q.from) => DoubleQuoted(Unwrap(q.from))

\* The names of the table's columns
ColumnIdents(t) ==
  {t.fields[i].ident : i \in {j \in 1..Len(t.fields) : t.fields[j].ty # "Index"}}

\* C20: add_column_sql called with a qualified name whose unqualified part
\* is not a column of the table panics; it never returns a statement.
C20_AddUnknownColumnPanics ==
  ( /\ IsSome(ddl.add_column)
    /\ Qualified(In("add_column"))
    /\ BareOf(In("add_column"))[1] \notin ColumnIdents(Unwrap(ddl.add_column).table) ) =>
      Out("add_column") = Panicked

C20_Witness ==
  /\ IsSome(ddl.add_column)
  /\ In("add_column") = <<"accounts", ".", "missing">>
  /\ Out("add_column") = Panicked

\* C21: an unqualified column name makes add_column_sql, create_index_sql
\* and drop_index_sql panic instead of returning SQL; in a list one
\* unqualified entry is enough.
C21_UnqualifiedNamePanics ==
  /\ (IsSome(ddl.add_column) /\ ~Qualified(In("add_column"))) =>
       Out("add_column") = Panicked
  /\ \A slot \in {"create_index", "drop_index"} :
       ( /\ IsSome(ddl[slot])
         /\ \E i \in 1..Len(In(slot).names) : ~Qualified(In(slot).names[i]) ) =>
           Out(slot) = Panicked

C21_Witness ==
  /\ IsSome(ddl.add_column) /\ In("add_column") = <<"id">>
  /\ Out("add_column") = Panicked
  /\ IsSome(ddl.create_index)
  /\ In("create_index").names = << <<"accounts", ".", "id">>, <<"id">> >>
  /\ Out("create_index") = Panicked
  /\ IsSome(ddl.drop_index)
  /\ In("drop_index").names = << <<"id">>, accounts_name >>
  /\ Out("drop_index") = Panicked

\* The field of the table that carries the given name
FieldNamed(t, ident) ==
  t.fields[CHOOSE i \in 1..Len(t.fields) : t.fields[i].ident = ident]

\* C22: add_column_sql for a qualified name whose unqualified part (the text
\* after the dot, quotes stripped) is a column of the table returns
\* `alter table <table> add column <definition>;` with the definition of
\* exactly that column.
C22_AddColumnUsesTheNamedDefinition ==
  ( /\ IsSome(ddl.add_column)
    /\ Qualified(In("add_column"))
    /\ BareOf(In("add_column"))[1] \in ColumnIdents(Unwrap(ddl.add_column).table) ) =>
      LET t == Unwrap(ddl.add_column).table IN
        Out("add_column") =
          Sql(<<"alter", SP, "table", SP>> \o table_name(t)
                \o <<SP, "add", SP, "column", SP>>
                \o column_def(FieldNamed(t, BareOf(In("add_column"))[1]))
                \o <<";">>)

C22_Witness ==
  /\ IsSome(ddl.add_column)
  /\ In("add_column") = accounts_name
  /\ Out("add_column") =
       Sql(<<"alter", SP, "table", SP, DQ, "accounts", DQ, SP, "add", SP, "column", SP,
             "name", SP, "text", SP, "not", SP, "null", SP,
             "default", SP, "(", "''", ")", ";">>)

\* The clause slots a builder method sets
ClauseSlots ==
  {"select", "from", "insert_into", "values_sql", "update", "set", "delete",
   "where", "limit"}

\* A step of the live builder: one builder method called on the Query
BuilderStep == phase = "building" /\ phase' = "building"

\* C23: once a clause slot of a builder holds text, no later builder call
\* changes that text.
C23_SlotsSetAtMostOnce ==
  [][BuilderStep =>
       \A s \in ClauseSlots : IsSome(q[s]) => q'[s] = q[s]]_vars

\* C25: update(T).set(row).where(P), called in that order, renders
\* `<T.update_sql()> <row.set_sql()> where <P.clause>` with the parameter
\* vector row.values() followed by P.values, so that the placeholders of the
\* set clause meet the row's values and those of the where clause the
\* predicate's values.
C25_UpdateSetWhere ==
  (phase = "building" /\ Len(hist) = 3 /\ hist[1].m = "update"
     /\ hist[2].m = "set" /\ hist[3].m = "where") =>
    /\ sql(q) = TableUpdateSql(hist[1].x) \o <<SP>> \o RowSetSql(hist[2].x)
                  \o <<SP, "where", SP>> \o hist[3].x.clause
    /\ Params(q) = RowValues(hist[2].x) \o hist[3].x.values
    /\ CountQM(Unwrap(q.set)) = Len(RowValues(hist[2].x))
    /\ CountQM(Unwrap(q.where)) = Len(hist[3].x.values)

C25_Witness ==
  /\ phase = "building" /\ Len(hist) = 3
  /\ hist[1].m = "update" /\ hist[2].m = "set" /\ hist[3].m = "where"
  /\ hist[2].x = RowOneX /\ hist[3].x = IdEqualsTextOne
  /\ Params(q) = <<Integer("1"), Text("x"), Text("1")>>
  /\ CountQM(sql(q)) = 3

\* The clause slot each builder method writes
OwnSlot(m) ==
  CASE m = "insert" -> "insert_into"
    [] m = "values" -> "values_sql"
    [] OTHER -> m

BuilderMethods ==
  {"select", "from", "where", "limit", "insert", "values", "update", "set", "delete"}

\* C26: a builder method changes no clause slot but its own; select, from,
\* limit, insert, update and delete leave the parameter vector as it is, and
\* only values, set and where touch it.
C26_MethodsChangeOnlyTheirSlot ==
  [][\A m \in BuilderMethods :
       IsCall(m) =>
         /\ \A s \in (ClauseSlots \cup {"returning"}) \ {OwnSlot(m)} : q'[s] = q[s]
         /\ m \notin {"values", "set", "where"} => q'.values = q.values]_vars

C26_Witness ==
  /\ phase = "building" /\ Len(hist) = 3
  /\ hist[1].m = "from" /\ hist[2].m = "where" /\ hist[3].m = "limit"
  /\ q.from = Some(<<"from", SP>> \o table_name(hist[1].x))
  /\ q.where = Some(<<"where", SP>> \o hist[2].x.clause)
  /\ IsSome(q.limit)
  /\ Len(hist[2].x.values) = 2
  /\ Params(q) = hist[2].x.values

\* C27: a Database entry call gives a builder whose slots and parameter
\* vector are empty except the one slot the call sets, and when two builders
\* of one Database are built with their calls interleaved in any way, each
\* ends with the SQL and the parameters it has when built alone.
C27_BuildersAreIndependent ==
  \A i \in Builders :
    /\ Len(pair[i].hist) = 1 =>
         /\ Present(pair[i].q) = {OwnSlot(pair[i].hist[1].m)}
         /\ pair[i].q.values = None
    /\ sql(pair[i].q) = sql(Run(Query_new, pair[i].hist))
    /\ pair[i].q.values = Run(Query_new, pair[i].hist).values

C27_Witness ==
  /\ Len(pair[1].hist) = 2 /\ Len(pair[2].hist) = 2
  /\ pair[1].hist[1].m = "select" /\ pair[1].hist[2].m = "where"
  /\ pair[2].hist[1].m = "update" /\ pair[2].hist[2].m = "set"
  /\ Present(pair[1].q) = {"select", "where"}
  /\ Present(pair[2].q) = {"update", "set"}
  /\ Params(pair[1].q) = <<Text("1")>>
  /\ Params(pair[2].q) = <<Integer("1"), Text("x")>>

\* C28: db(connection) on a Connection whose conn is None panics, so a
\* Database exists only for a Connection that open() returned; nothing runs
\* on the engine before the open, and when open() returns the Connection
\* the accumulated pragma batch has run on the new connection.
C28_DatabaseNeedsOpenedConnection ==
  /\ IsSome(cn.db) =>
       /\ Unwrap(cn.db).arg.conn = None => Unwrap(cn.db).out = Panicked
       /\ Unwrap(cn.db).out.tag = "Ok" =>
            /\ IsSome(cn.opened)
            /\ Unwrap(cn.opened) = Ok(Unwrap(cn.db).arg)
            /\ Unwrap(cn.db).out.val.connection = Some(Handle)
  /\ cn.engine # << >> => cn.engine[1].op = "open"
  /\ (IsSome(cn.opened) /\ Unwrap(cn.opened).tag = "Ok") =>
       LET c == Unwrap(cn.opened).val IN
         /\ c.conn = Some(Handle)
         /\ IsSome(c.pragma) =>
              /\ Len(cn.engine) >= 2
              /\ cn.engine[2] = EngineCall("execute_batch", Unwrap(c.pragma))

C28_Witness ==
  /\ IsSome(cn.db)
  /\ Unwrap(cn.db).arg.conn = None
  /\ IsSome(Unwrap(cn.db).arg.pragma)
  /\ Unwrap(cn.db).out = Panicked
  /\ cn.engine = << >>

====
